---- MODULE Spec2Model ----
(***************************************************************************)
(* IndexedDbClient (src/src/indexed-db-client.ts) over the host's          *)
(* IndexedDB engine.  The client's fields and the engine's database are    *)
(* the state; every public method call, every microtask continuation and   *)
(* every engine event handler is one action.                               *)
(***************************************************************************)
EXTENDS Integers, Sequences, FiniteSets, TLC

(***************************************************************************)
(* Bounds of the model.                                                    *)
(***************************************************************************)
\* Highest primary key the key generator hands out before writes stop.
MaxKey == 2
\* Data operations (select, insert, update, delete) pending at one time.
MaxPending == 2
\* Lifecycle requests (open, deleteDatabase) pending at one time.
MaxLifecycle == 1

(***************************************************************************)
(* Values.                                                                 *)
(***************************************************************************)
Null == "null"
StorageNames == {"tasks", "logs"}

\* A key of the engine: <<type, value>>.  Numbers sort before strings.
NumKey(n) == <<0, n>>
StrRank(s) == CASE s = "A" -> 1 [] s = "B" -> 2 [] OTHER -> 3
StrKey(s) == <<1, StrRank(s)>>
NoKey == <<9, 0>>
KeyLess(a, b) == a[1] < b[1] \/ (a[1] = b[1] /\ a[2] < b[2])

\* SelectParams.value: absent, a scalar, or IDBKeyRange.lowerBound(k).
NoValue == [kind |-> "none", key |-> NoKey]
Only(k) == [kind |-> "only", key |-> k]
LowerBound(k) == [kind |-> "lower", key |-> k]
InRange(v, k) ==
    \/ v.kind = "none"
    \/ v.kind = "only" /\ k = v.key
    \/ v.kind = "lower" /\ ~KeyLess(k, v.key)
\* JavaScript truthiness of value: undefined and 0 are falsy, a range is an object.
Truthy(v) == v.kind = "lower" \/ (v.kind = "only" /\ v.key # NumKey(0))
\* A valid key for IDBKeyRange.only: a scalar (undefined and a range are not keys).
IsKey(v) == v.kind = "only"

\* SelectParams; has = FALSE is the call without an argument, key "" an absent
\* key, count 0 an absent (or zero) count, orderBy "" an absent orderBy.
NoParams == [has |-> FALSE, key |-> "", value |-> NoValue, count |-> 0, orderBy |-> ""]
Params(k, v, c, o) == [has |-> TRUE, key |-> k, value |-> v, count |-> c, orderBy |-> o]

(***************************************************************************)
(* Schema descriptors (IDBConfig).  cfgA is the example's descriptor, cfgB *)
(* a later version of it: one more storage, one more index on tasks.       *)
(***************************************************************************)
NoConfig == "none"
Configs == {"cfgA", "cfgB"}
Ix(i, k, u) == [index |-> i, key |-> k, unique |-> u]
Descriptor(c) ==
    IF c = "cfgA"
    THEN [dbVersion |-> 1,
          storageNames |-> <<"tasks">>,
          storeNameToIndexes |-> [s \in StorageNames |->
              IF s = "tasks" THEN <<Ix("tasksName", "name", "unset")>> ELSE <<>>]]
    ELSE [dbVersion |-> 2,
          storageNames |-> <<"tasks", "logs">>,
          storeNameToIndexes |-> [s \in StorageNames |->
              IF s = "tasks"
              THEN <<Ix("tasksName", "name", "unset"), Ix("tasksNote", "note", "true")>>
              ELSE <<Ix("logsName", "name", "false")>>]]

(***************************************************************************)
(* The engine's database: object stores, their indexes and records.        *)
(***************************************************************************)
NoStore == [exists |-> FALSE, keyPath |-> "", autoIncrement |-> FALSE,
            indexes |-> {}, recs |-> {}, gen |-> 1]
NoDatabase == [version |-> 0, stores |-> [s \in StorageNames |-> NoStore]]

\* The key a record has under a key path; note 0 is a record without the field.
FieldKey(r, path) ==
    CASE path = "id" -> NumKey(r.id)
      [] path = "name" -> StrKey(r.name)
      [] path = "note" -> IF r.note = 0 THEN NoKey ELSE NumKey(r.note)
      [] OTHER -> NoKey

HasIndex(st, i) == \E x \in st.indexes : x.index = i
IndexOf(st, i) == CHOOSE x \in st.indexes : x.index = i

\* Entries of a store (path "id") or an index: <<key, primary key>>, records
\* without the indexed field left out.
EntryLess(a, b) == KeyLess(a[1], b[1]) \/ (a[1] = b[1] /\ a[2] < b[2])
Entries(st, path) ==
    {<<FieldKey(r, path), r.id>> : r \in {x \in st.recs : FieldKey(x, path) # NoKey}}
RecordAt(st, id) == CHOOSE r \in st.recs : r.id = id

RECURSIVE Ascending(_)
Ascending(E) ==
    IF E = {} THEN <<>>
    ELSE LET m == CHOOSE e \in E : \A f \in E : f = e \/ EntryLess(e, f)
         IN <<m>> \o Ascending(E \ {m})

Take(s, count) == IF count = 0 \/ count >= Len(s) THEN s ELSE SubSeq(s, 1, count)

\* IDBObjectStore.getAll / IDBIndex.getAll (path is the source's key path).
GetAll(st, path, v, count) ==
    LET E == {e \in Entries(st, path) : InRange(v, e[1])}
        asc == Take(Ascending(E), count)
    IN [i \in 1..Len(asc) |-> RecordAt(st, asc[i][2])]

(***************************************************************************)
(* State.                                                                  *)
(***************************************************************************)
VARIABLES
    config,       \* this.config: NoConfig or the name of a descriptor
    db,           \* this.db: Null or the connection the last open event handed over
    storageName,  \* this.storageName: Null or a storage name
    isInited,     \* this._isInited
    idb,          \* the engine's database (version 0: it does not exist)
    conn,         \* the engine's connections: the state of the one this.db holds
                  \* (none, upgrading, open, closed), and whether others are open
    lcq,          \* the engine's connection queue: pending open/delete requests
    txq,          \* pending data operations, one transaction each, oldest first
    last          \* what the step just taken did (a report, for the properties)

vars == <<config, db, storageName, isInited, idb, conn, lcq, txq, last>>
client == <<config, db, storageName, isInited>>

NoResult == "null"
Connection == "IDBDatabase"
\* The connections to the database: state, the one this.db holds; stale,
\* earlier ones of this page that this.db no longer refers to (never closed);
\* others, a connection held by another page; names, the object stores the
\* connection this.db holds lists (this.db.objectStoreNames): the stores of
\* the database when the connection was made, changed only by the schema
\* calls of its own upgrade.
NoConn == [state |-> "none", stale |-> FALSE, others |-> FALSE, names |-> {}]

\* The report of a step.  op: the method the step belongs to; ev: "call" (the
\* synchronous part of the call), "micro" (the continuation after an await),
\* or the engine event handled; promise: the state of the promise the call
\* returned, after the step; settled: the promise settled in this step; sel,
\* hadDb, connOpen, storeExists, pre: this.storageName, this.db, the
\* connection's state, the selected storage's existence and this._isInited
\* when the method was called; tx, req: the call opened a transaction, issued
\* an engine request; elem: the element an insert or update was called with;
\* arg: the storage name createStorage or deleteStorage was called with; ret:
\* what a synchronous method returned.
NoElem == [hasId |-> FALSE, id |-> 0, name |-> "A", note |-> 0]
Idle == [op |-> "none", ev |-> "", promise |-> "", settled |-> FALSE, err |-> "",
         rows |-> <<>>, num |-> 0, sel |-> Null, hadDb |-> FALSE, connOpen |-> FALSE,
         storeExists |-> FALSE, fromDuring |-> FALSE, p |-> NoParams, cfg |-> NoConfig,
         pre |-> FALSE, tx |-> FALSE, req |-> FALSE, oldVersion |-> 0, elem |-> NoElem,
         arg |-> Null, ret |-> ""]

(***************************************************************************)
(* constructor, configure, from.                                           *)
(***************************************************************************)
Init ==
    /\ config \in {NoConfig} \cup Configs
    /\ db = Null
    /\ storageName = Null
    /\ isInited = FALSE
    /\ idb = NoDatabase
    /\ conn = NoConn
    /\ lcq = <<>>
    /\ txq = <<>>
    /\ last = Idle

ConfigureAnew(c) ==
    /\ config' = c
    /\ storageName' = Null
    /\ last' = [Idle EXCEPT !.op = "configure", !.ev = "call", !.cfg = c, !.ret = "this"]
    /\ UNCHANGED <<db, isInited, idb, conn, lcq, txq>>
Configure(c) ==
    /\ config' = c
    /\ last' = [Idle EXCEPT !.op = "configure", !.ev = "call", !.cfg = c, !.ret = "this"]
    /\ UNCHANGED <<db, storageName, isInited, idb, conn, lcq, txq>>

\* A from call that redirects the operations in flight to the new name.
NoteFromRedirecting(q) == [i \in 1..Len(q) |->
    [q[i] EXCEPT !.store = storageName', !.fromDuring = TRUE]]

\* A from call made while an operation's promise is pending is noted on it.
NoteFrom(q) == [i \in 1..Len(q) |->
    IF q[i].promise = "pending" THEN [q[i] EXCEPT !.fromDuring = TRUE] ELSE q[i]]

From(s) ==
    /\ storageName' = s
    /\ txq' = NoteFrom(txq)
    /\ last' = Idle
    /\ UNCHANGED <<config, db, isInited, idb, conn, lcq>>

(***************************************************************************)
(* createStorage: the store it creates, with the indexes this.config       *)
(* declares for it.                                                        *)
(***************************************************************************)
DeclaredIndexes(cfg, s) ==
    IF cfg = NoConfig THEN <<>> ELSE Descriptor(cfg).storeNameToIndexes[s]

NewIndexNeverUnique(decl) ==
    [index |-> decl.index, key |-> decl.key, unique |-> FALSE]
NewIndex(decl) ==
    [index |-> decl.index, key |-> decl.key, unique |-> (decl.unique = "true")]

CreateStorage(d, s, cfg) ==
    LET decls == DeclaredIndexes(cfg, s)
    IN [d EXCEPT !.stores[s] =
           [exists |-> TRUE, keyPath |-> "id", autoIncrement |-> TRUE,
            indexes |-> {NewIndex(decls[i]) : i \in 1..Len(decls)},
            recs |-> {}, gen |-> 1]]

\* A storage the upgrade finds present gets the indexes it lacks (index diffing).
AddMissingIndexes(d, s, cfg) ==
    LET decls == DeclaredIndexes(cfg, s)
    IN [d EXCEPT !.stores[s].indexes =
           @ \cup {NewIndex(decls[i]) : i \in 1..Len(decls)}]

RECURSIVE UpgradeStoresDiffing(_, _, _)
UpgradeStoresDiffing(d, names, cfg) ==
    IF names = <<>> THEN d
    ELSE LET s == Head(names)
             d1 == IF ~d.stores[s].exists THEN CreateStorage(d, s, cfg)
                   ELSE AddMissingIndexes(d, s, cfg)
         IN UpgradeStoresDiffing(d1, Tail(names), cfg)

\* onupgradeneeded's forEach: every named storage that does not exist is created.
RECURSIVE UpgradeStores(_, _, _)
UpgradeStores(d, names, cfg) ==
    IF names = <<>> THEN d
    ELSE LET s == Head(names)
             d1 == IF ~d.stores[s].exists THEN CreateStorage(d, s, cfg) ELSE d
         IN UpgradeStores(d1, Tail(names), cfg)

(***************************************************************************)
(* init and the events of its open request.                                *)
(***************************************************************************)
ConfigMissingNever == FALSE
ConfigMissing == config = NoConfig

OpenRequest(cfg, pre) ==
    [kind |-> "open", cfg |-> cfg, pre |-> pre, phase |-> "queued",
     promise |-> "pending", backup |-> NoDatabase]
DeleteRequest(cfg, pre) ==
    [kind |-> "delete", cfg |-> cfg, pre |-> pre, phase |-> "queued",
     promise |-> "pending", backup |-> NoDatabase]

InitCall ==
    IF ConfigMissing
    THEN /\ last' = [Idle EXCEPT !.op = "init", !.ev = "call", !.promise = "rejected",
                        !.settled = TRUE, !.err = "Config is not exist",
                        !.cfg = config, !.pre = isInited]
         /\ UNCHANGED <<config, db, storageName, isInited, idb, conn, lcq, txq>>
    ELSE /\ Len(lcq) < MaxLifecycle
         /\ lcq' = Append(lcq, OpenRequest(config, isInited))
         /\ last' = [Idle EXCEPT !.op = "init", !.ev = "call", !.promise = "pending",
                        !.cfg = config, !.pre = isInited, !.req = TRUE]
         /\ UNCHANGED <<config, db, storageName, isInited, idb, conn, txq>>

\* An engine event is a task: it runs when no continuation (microtask) waits.
NoMicrotask == \A i \in 1..Len(txq) : ~txq[i].micro

HeadIs(kind, phase) ==
    /\ NoMicrotask
    /\ lcq # <<>>
    /\ Head(lcq).kind = kind
    /\ Head(lcq).phase = phase

\* No connection to the database is open (or upgrading it).
NoLiveConn == conn.state \in {"none", "closed"} /\ ~conn.stale /\ ~conn.others
\* A new connection takes the place of the one this.db held.
Existing(d) == {s \in StorageNames : d.stores[s].exists}
NewConn(state, d) ==
    [state |-> state, stale |-> conn.stale \/ conn.state = "open", others |-> conn.others,
     names |-> Existing(d)]

\* resolve() and reject() of a promise: the first one settles it.
Resolved(promise) == IF promise = "pending" THEN "resolved" ELSE promise
Rejected(promise) == IF promise = "pending" THEN "rejected" ELSE promise

InitReport(r, ev) ==
    [Idle EXCEPT !.op = "init", !.ev = ev, !.cfg = r.cfg, !.pre = r.pre,
                 !.oldVersion = idb.version]

\* The stored version is the requested one: the engine reports success.
OpenSuccess ==
    /\ HeadIs("open", "queued")
    /\ idb.version = Descriptor(Head(lcq).cfg).dbVersion
    /\ LET r == Head(lcq) IN
        /\ conn' = NewConn("open", idb)
        /\ db' = Connection
        /\ isInited' = TRUE
        /\ lcq' = Tail(lcq)
        /\ last' = [InitReport(r, "success") EXCEPT !.promise = Resolved(r.promise),
                       !.settled = (r.promise = "pending")]
    /\ UNCHANGED <<config, storageName, idb, txq>>

\* The stored version is higher than the requested one: VersionError.
OpenVersionError ==
    /\ HeadIs("open", "queued")
    /\ idb.version > Descriptor(Head(lcq).cfg).dbVersion
    /\ LET r == Head(lcq) IN
        /\ lcq' = Tail(lcq)
        /\ last' = [InitReport(r, "error") EXCEPT !.promise = Rejected(r.promise),
                       !.settled = (r.promise = "pending"), !.err = "VersionError"]
    /\ UNCHANGED <<config, db, storageName, isInited, idb, conn, txq>>

\* The stored version is lower and no other connection is open: the engine
\* starts the upgrade transaction and reports upgradeneeded.
OpenUpgradeNeeded ==
    /\ HeadIs("open", "queued")
    /\ idb.version < Descriptor(Head(lcq).cfg).dbVersion
    /\ NoLiveConn
    /\ LET r == Head(lcq)
           d == Descriptor(r.cfg)
       IN
        /\ idb' = UpgradeStores([idb EXCEPT !.version = d.dbVersion], d.storageNames, config)
        /\ conn' = NewConn("upgrading", idb')
        /\ db' = Connection
        /\ isInited' = TRUE
        /\ lcq' = <<[r EXCEPT !.phase = "upgrading", !.promise = Resolved(r.promise),
                              !.backup = idb]>> \o Tail(lcq)
        /\ last' = [InitReport(r, "upgradeneeded") EXCEPT !.promise = Resolved(r.promise),
                       !.settled = (r.promise = "pending")]
    /\ UNCHANGED <<config, storageName, txq>>

\* The upgrade transaction completes (its complete event; the class listens
\* to none).  From here to the success event of the open request the
\* connection has no upgrade transaction any more: it takes transactions,
\* and createObjectStore and deleteObjectStore throw InvalidStateError.
UpgradeComplete ==
    /\ HeadIs("open", "upgrading")
    /\ conn' = [conn EXCEPT !.state = "open"]
    /\ lcq' = <<[Head(lcq) EXCEPT !.phase = "committed"]>> \o Tail(lcq)
    /\ last' = Idle
    /\ UNCHANGED <<config, db, storageName, isInited, idb, txq>>

\* The upgrade transaction is aborted: the database and the connection's
\* list of stores are back to what they were at once, before the error
\* event of the open request.
UpgradeAbort ==
    /\ HeadIs("open", "upgrading")
    /\ LET r == Head(lcq) IN
        /\ conn' = [conn EXCEPT !.state = "aborting", !.names = Existing(r.backup)]
        /\ idb' = r.backup
        /\ lcq' = <<[r EXCEPT !.phase = "aborted"]>> \o Tail(lcq)
        /\ last' = Idle
    /\ UNCHANGED <<config, db, storageName, isInited, txq>>

\* The upgrade transaction committed: success.
OpenUpgradeDone ==
    /\ HeadIs("open", "committed")
    /\ LET r == Head(lcq) IN
        /\ db' = Connection
        /\ isInited' = TRUE
        /\ lcq' = Tail(lcq)
        /\ last' = [InitReport(r, "success") EXCEPT !.promise = Resolved(r.promise),
                       !.settled = (r.promise = "pending")]
    /\ UNCHANGED <<config, storageName, idb, conn, txq>>

\* The upgrade transaction aborted: the connection is closed, and the engine
\* reports error.
OpenUpgradeAbort ==
    /\ HeadIs("open", "aborted")
    /\ LET r == Head(lcq) IN
        /\ conn' = [conn EXCEPT !.state = "closed"]
        /\ lcq' = Tail(lcq)
        /\ last' = [InitReport(r, "error") EXCEPT !.promise = Rejected(r.promise),
                       !.settled = (r.promise = "pending"), !.err = "AbortError"]
    /\ UNCHANGED <<config, db, storageName, isInited, idb, txq>>

(***************************************************************************)
(* deleteDb and the events of its deleteDatabase request.                  *)
(***************************************************************************)
DeleteDbCall ==
    IF ConfigMissing
    THEN /\ last' = [Idle EXCEPT !.op = "deleteDb", !.ev = "call", !.promise = "rejected",
                        !.settled = TRUE, !.err = "Config is not exist",
                        !.cfg = config, !.pre = isInited]
         /\ UNCHANGED <<config, db, storageName, isInited, idb, conn, lcq, txq>>
    ELSE /\ Len(lcq) < MaxLifecycle
         /\ lcq' = Append(lcq, DeleteRequest(config, isInited))
         /\ last' = [Idle EXCEPT !.op = "deleteDb", !.ev = "call", !.promise = "pending",
                        !.cfg = config, !.pre = isInited, !.req = TRUE]
         /\ UNCHANGED <<config, db, storageName, isInited, idb, conn, txq>>

DeleteReport(r, ev) ==
    [Idle EXCEPT !.op = "deleteDb", !.ev = ev, !.cfg = r.cfg, !.pre = r.pre,
                 !.oldVersion = idb.version]

DeleteDbSuccessReleasing ==
    /\ NoMicrotask
    /\ lcq # <<>>
    /\ Head(lcq).kind = "delete"
    /\ Head(lcq).phase # "orphaned"
    /\ NoLiveConn
    /\ LET r == Head(lcq) IN
        /\ idb' = NoDatabase
        /\ isInited' = FALSE
        /\ db' = Null
        /\ lcq' = Tail(lcq)
        /\ last' = [DeleteReport(r, "success") EXCEPT !.promise = Resolved(r.promise),
                       !.settled = (r.promise = "pending")]
    /\ UNCHANGED <<config, storageName, conn, txq>>

\* No connection to the database is open: it is deleted, the engine reports
\* success (also to a request it reported blocked earlier).
DeleteDbSuccess ==
    /\ NoMicrotask
    /\ lcq # <<>>
    /\ Head(lcq).kind = "delete"
    /\ Head(lcq).phase # "orphaned"
    /\ NoLiveConn
    /\ LET r == Head(lcq) IN
        /\ idb' = NoDatabase
        /\ isInited' = FALSE
        /\ lcq' = Tail(lcq)
        /\ last' = [DeleteReport(r, "success") EXCEPT !.promise = Resolved(r.promise),
                       !.settled = (r.promise = "pending")]
    /\ UNCHANGED <<config, db, storageName, conn, txq>>

\* A connection is still open after versionchange (the client never closes
\* its own): the engine reports blocked and waits for the connections to close.
DeleteDbBlocked ==
    /\ HeadIs("delete", "queued")
    /\ ~NoLiveConn
    /\ LET r == Head(lcq) IN
        /\ lcq' = <<[r EXCEPT !.phase = "blocked", !.promise = Rejected(r.promise)]>>
                     \o Tail(lcq)
        /\ last' = [DeleteReport(r, "blocked") EXCEPT !.promise = Rejected(r.promise),
                       !.settled = (r.promise = "pending"),
                       !.err = "Could not delete database due to the operation being blocked"]
    /\ UNCHANGED <<config, db, storageName, isInited, idb, conn, txq>>

\* The request of a page that is gone: the last connection closed, the
\* database is deleted and nobody hears of it.
DeleteDbOrphaned ==
    /\ NoMicrotask
    /\ lcq # <<>>
    /\ Head(lcq).phase = "orphaned"
    /\ NoLiveConn
    /\ idb' = NoDatabase
    /\ lcq' = Tail(lcq)
    /\ last' = Idle
    /\ UNCHANGED <<config, db, storageName, isInited, conn, txq>>

\* The engine fails to delete the database.
DeleteDbError ==
    /\ HeadIs("delete", "queued")
    /\ LET r == Head(lcq) IN
        /\ lcq' = Tail(lcq)
        /\ last' = [DeleteReport(r, "error") EXCEPT !.promise = Rejected(r.promise),
                       !.settled = (r.promise = "pending"),
                       !.err = "Could not delete database"]
    /\ UNCHANGED <<config, db, storageName, isInited, idb, conn, txq>>

(***************************************************************************)
(* Other pages of the same origin: a page opens a connection to the stored *)
(* database, or closes the one it holds.  A pending deleteDatabase waits   *)
(* for the latter.                                                         *)
(***************************************************************************)
OtherOpen ==
    /\ idb.version > 0
    /\ ~conn.others
    /\ conn.state # "upgrading"
    /\ lcq = <<>>
    /\ conn' = [conn EXCEPT !.others = TRUE]
    /\ last' = Idle
    /\ UNCHANGED <<config, db, storageName, isInited, idb, lcq, txq>>

OtherClose ==
    /\ conn.others
    /\ conn' = [conn EXCEPT !.others = FALSE]
    /\ last' = Idle
    /\ UNCHANGED <<config, db, storageName, isInited, idb, lcq, txq>>

(***************************************************************************)
(* A page load: a new client is constructed, with a descriptor or without. *)
(* The engine closes the old page's connections and aborts what the page   *)
(* left unfinished: an upgrade and the open requests are dropped, the      *)
(* transactions in progress rolled back.  A deleteDatabase request the     *)
(* page left pending stays with the engine: it completes as soon as no     *)
(* connection is open, which is at once unless another page holds one.     *)
(* The connections of other pages are not touched.                         *)
(***************************************************************************)
DeletePending == \E i \in 1..Len(lcq) : lcq[i].kind = "delete"

RolledBack ==
    [idb EXCEPT !.stores = [s \in DOMAIN idb.stores |->
        IF \E i \in 1..Len(txq) : txq[i].active /\ txq[i].store = s
        THEN txq[CHOOSE i \in 1..Len(txq) : txq[i].active /\ txq[i].store = s].snap
        ELSE idb.stores[s]]]

AfterUnload ==
    IF DeletePending /\ ~conn.others
    THEN NoDatabase
    ELSE IF lcq # <<>> /\ Head(lcq).kind = "open" /\ Head(lcq).phase = "upgrading"
         THEN Head(lcq).backup
         ELSE RolledBack

Orphaned(r) == [r EXCEPT !.phase = "orphaned", !.promise = "dropped"]
IsDelete(r) == r.kind = "delete"
LeftPending ==
    IF conn.others
    THEN [i \in 1..Len(SelectSeq(lcq, IsDelete)) |-> Orphaned(SelectSeq(lcq, IsDelete)[i])]
    ELSE <<>>

NewSession(c) ==
    /\ config' = c
    /\ db' = Null
    /\ storageName' = Null
    /\ isInited' = FALSE
    /\ idb' = AfterUnload
    /\ conn' = [NoConn EXCEPT !.others = conn.others]
    /\ lcq' = LeftPending
    /\ txq' = <<>>
    /\ last' = Idle

(***************************************************************************)
(* getStorage, clearStorageName and the reports of the data operations.    *)
(***************************************************************************)
\* What getStorage throws ("" when it returns the store): its own two checks,
\* then IDBDatabase.transaction's (connection not open, no such store).
GetStorageChecksNameFirst ==
    IF storageName = Null THEN "No storage selected"
    ELSE IF db = Null THEN "DB is not init"
    ELSE IF conn.state # "open" THEN "InvalidStateError"
    ELSE IF ~idb.stores[storageName].exists THEN "NotFoundError"
    ELSE ""
GetStorageError ==
    IF db = Null THEN "DB is not init"
    ELSE IF storageName = Null THEN "No storage selected"
    ELSE IF conn.state # "open" THEN "InvalidStateError"
    ELSE IF ~idb.stores[storageName].exists THEN "NotFoundError"
    ELSE ""

CallReport(op, p) ==
    [Idle EXCEPT !.op = op, !.ev = "call", !.sel = storageName, !.hadDb = (db # Null),
                 !.connOpen = (db # Null /\ conn.state = "open"),
                 !.storeExists = (storageName \in StorageNames
                                    /\ idb.stores[storageName].exists),
                 !.p = p]

\* The call throws before it issues a request: its promise is rejected, and
\* no field of the client changes.
Throws(op, p, err, tx) ==
    /\ last' = [CallReport(op, p) EXCEPT !.promise = "rejected", !.settled = TRUE,
                   !.err = err, !.tx = tx]
    /\ UNCHANGED <<config, db, storageName, isInited, idb, conn, lcq, txq>>

NoEntry == <<NoKey, 0>>

Op(op, mode, path, p, elem, micro) ==
    [op |-> op, mode |-> mode, store |-> storageName, path |-> path, p |-> p,
     elem |-> elem, acc |-> <<>>, step |-> 0, pos |-> NoEntry, promise |-> "pending",
     micro |-> micro, fromDuring |-> FALSE, active |-> FALSE, snap |-> NoStore]

\* The call issued its request and returned a pending promise.
IssuesFirst(o) ==
    /\ Len(txq) < MaxPending
    /\ txq' = <<o>> \o txq
    /\ last' = [CallReport(o.op, o.p) EXCEPT !.promise = "pending", !.tx = TRUE,
                   !.req = TRUE]
    /\ UNCHANGED <<config, db, storageName, isInited, idb, conn, lcq>>
Issues(o) ==
    /\ Len(txq) < MaxPending
    /\ txq' = Append(txq, o)
    /\ last' = [CallReport(o.op, o.p) EXCEPT !.promise = "pending", !.tx = TRUE,
                   !.req = TRUE]
    /\ UNCHANGED <<config, db, storageName, isInited, idb, conn, lcq>>

\* The report of an event of (or a continuation in) a queued operation.
OpReport(o, ev) ==
    [Idle EXCEPT !.op = o.op, !.ev = ev, !.sel = o.store, !.hadDb = TRUE,
                 !.connOpen = TRUE, !.storeExists = TRUE, !.p = o.p,
                 !.fromDuring = o.fromDuring, !.tx = TRUE, !.req = TRUE,
                 !.elem = o.elem]
Settles(o, ev, promise, err) ==
    [OpReport(o, ev) EXCEPT !.promise = IF o.promise = "pending" THEN promise ELSE o.promise,
                            !.settled = (o.promise = "pending"), !.err = err]


\* Every operation runs in a transaction of its own over its one store,
\* readonly for select, readwrite for the others.  Two transactions whose
\* scopes overlap run in the order of their creation unless both only read;
\* the others run side by side, and their events come in any order.
ReadOnly(o) == o.mode \in {"getAll", "cursor"}
Overlap(o1, o2) == o1.store = o2.store /\ (~ReadOnly(o1) \/ ~ReadOnly(o2))
Started(i) == \A j \in 1..(i - 1) : ~Overlap(txq[j], txq[i])
EventFor(i, mode) ==
    /\ NoMicrotask
    /\ ~(lcq # <<>> /\ Head(lcq).phase = "committed")
    /\ txq[i].mode = mode
    /\ Started(i)
\* The queue without its i-th operation.
Without(q, i) == SubSeq(q, 1, i - 1) \o SubSeq(q, i + 1, Len(q))

(***************************************************************************)
(* select.                                                                 *)
(***************************************************************************)
IsStorage(p) == ~p.has \/ p.key = "id" \/ (p.has /\ (p.count # 0 \/ p.orderBy # ""))

\* IDBObjectStore.index throws NotFoundError: the name (the key, or '' for an
\* absent key) is no index of the store.
SelectIndexMissing(st, p) == ~IsStorage(p) /\ ~HasIndex(st, p.key)
\* The key path of what select reads: the store's, or the index's.
SelectPath(st, p) == IF IsStorage(p) THEN "id" ELSE IndexOf(st, p.key).key

SelectCall(p) ==
    LET st == idb.stores[storageName] IN
    IF GetStorageError # "" THEN Throws("select", p, GetStorageError, FALSE)
    ELSE IF SelectIndexMissing(st, p) THEN Throws("select", p, "NotFoundError", TRUE)
    ELSE IF p.orderBy # "desc"
    THEN Issues(Op("select", "getAll", SelectPath(st, p), p, NoElem, FALSE))
    ELSE Issues(Op("select", "cursor", SelectPath(st, p), p, NoElem, FALSE))

\* getAll's success: promisifyRequest clears the storage name and resolves
\* with the result (an array is never falsy, so never with the default).
SelectSuccess ==
    /\ \E i \in 1..Len(txq) :
       /\ EventFor(i, "getAll")
       /\ LET o == txq[i]
              rows == GetAll(idb.stores[o.store], o.path, o.p.value, o.p.count)
          IN
           /\ storageName' = Null
           /\ txq' = Without(txq, i)
           /\ last' = [Settles(o, "success", "resolved", "") EXCEPT !.rows = rows]
    /\ UNCHANGED <<config, db, isInited, idb, conn, lcq>>

\* The engine fails the read: onError clears the storage name, the promise fails.
SelectError ==
    /\ \E i \in 1..Len(txq) :
       /\ EventFor(i, "getAll")
       /\ LET o == txq[i] IN
           /\ storageName' = Null
           /\ txq' = Without(txq, i)
           /\ last' = Settles(o, "error", "rejected", "UnknownError")
    /\ UNCHANGED <<config, db, isInited, idb, conn, lcq>>

\* The entry a cursor over E stands on after one advance from pos.
PrevEntry(E, pos) ==
    LET C == {e \in E : pos = NoEntry \/ EntryLess(e, pos)}
    IN IF C = {} THEN NoEntry
       ELSE CHOOSE e \in C : \A f \in C : f = e \/ EntryLess(f, e)
NextEntry(E, pos) ==
    LET C == {e \in E : pos = NoEntry \/ EntryLess(pos, e)}
    IN IF C = {} THEN NoEntry
       ELSE CHOOSE e \in C : \A f \in C : f = e \/ EntryLess(e, f)

\* The cursor never stops at count.
IsNeedStepAlways(count, step) == TRUE
\* isNeedStep: count && step ? step - count : true, as a truth value.
IsNeedStep(count, step) == IF count # 0 /\ step # 0 THEN step - count # 0 ELSE TRUE

SelectCursorStepConsuming ==
    /\ \E i \in 1..Len(txq) :
       /\ EventFor(i, "cursor")
       /\ LET o == txq[i]
              st == idb.stores[o.store]
              E == {e \in Entries(st, o.path) : InRange(o.p.value, e[1])}
              cur == PrevEntry(E, o.pos)
          IN
           IF IsNeedStep(o.p.count, o.step) /\ cur # NoEntry
           THEN /\ txq' = [txq EXCEPT ![i] = [o EXCEPT !.acc = Append(@, RecordAt(st, cur[2])),
                                      !.step = @ + 1, !.pos = cur]]
                /\ last' = [OpReport(o, "step") EXCEPT !.promise = "pending"]
                /\ idb' = [idb EXCEPT !.stores[o.store].recs = {r \in @ : r.id # cur[2]}]
                /\ UNCHANGED storageName
           ELSE /\ storageName' = Null
                /\ txq' = Without(txq, i)
                /\ last' = [Settles(o, "success", "resolved", "") EXCEPT !.rows = o.acc]
                /\ UNCHANGED idb
    /\ UNCHANGED <<config, db, isInited, conn, lcq>>

\* A success event of the reverse cursor: one more record, or the end.
SelectCursorStep ==
    /\ \E i \in 1..Len(txq) :
       /\ EventFor(i, "cursor")
       /\ LET o == txq[i]
              st == idb.stores[o.store]
              E == {e \in Entries(st, o.path) : InRange(o.p.value, e[1])}
              cur == PrevEntry(E, o.pos)
          IN
           IF IsNeedStep(o.p.count, o.step) /\ cur # NoEntry
           THEN /\ txq' = [txq EXCEPT ![i] = [o EXCEPT !.acc = Append(@, RecordAt(st, cur[2])),
                                      !.step = @ + 1, !.pos = cur]]
                /\ last' = [OpReport(o, "step") EXCEPT !.promise = "pending"]
                /\ UNCHANGED storageName
           ELSE /\ storageName' = Null
                /\ txq' = Without(txq, i)
                /\ last' = [Settles(o, "success", "resolved", "") EXCEPT !.rows = o.acc]
    /\ UNCHANGED <<config, db, isInited, idb, conn, lcq>>

SelectCursorError ==
    /\ \E i \in 1..Len(txq) :
       /\ EventFor(i, "cursor")
       /\ LET o == txq[i] IN
           /\ storageName' = Null
           /\ txq' = Without(txq, i)
           /\ last' = Settles(o, "error", "rejected", "UnknownError")
    /\ UNCHANGED <<config, db, isInited, idb, conn, lcq>>

(***************************************************************************)
(* The engine's put and delete on a store with key path id and a key       *)
(* generator.                                                              *)
(***************************************************************************)
PutKey(st, e) == IF e.hasId THEN e.id ELSE st.gen
PutRecordWithoutNote(st, e) == [id |-> PutKey(st, e), name |-> e.name, note |-> 0]
PutRecord(st, e) == [id |-> PutKey(st, e), name |-> e.name, note |-> e.note]
\* A unique index already holds the record's key for another primary key.
PutConflict(st, e) ==
    LET r == PutRecord(st, e) IN
    \E x \in st.indexes :
        /\ x.unique
        /\ FieldKey(r, x.key) # NoKey
        /\ \E o \in st.recs : o.id # r.id /\ FieldKey(o, x.key) = FieldKey(r, x.key)
Put(st, e) ==
    LET r == PutRecord(st, e) IN
    [st EXCEPT !.recs = {o \in @ : o.id # r.id} \cup {r},
               !.gen = IF ~e.hasId THEN @ + 1
                       ELSE IF e.id >= @ THEN e.id + 1 ELSE @]
DeleteRange(st, v) ==
    [st EXCEPT !.recs = {o \in @ : ~InRange(v, NumKey(o.id))}]
KeepRecord(st, id) == st
DeleteRecord(st, id) == [st EXCEPT !.recs = {o \in @ : o.id # id}]

\* Writes stop when the key generator could pass MaxKey.
PendingPuts ==
    Cardinality({i \in 1..Len(txq) : txq[i].mode \in {"put", "putUpdate"}
                                        /\ ~txq[i].elem.hasId})
KeysLeft(e) ==
    (~e.hasId /\ storageName \in StorageNames)
        => idb.stores[storageName].gen + PendingPuts <= MaxKey

(***************************************************************************)
(* insert.                                                                 *)
(***************************************************************************)
InsertCall(e) ==
    /\ KeysLeft(e)
    /\ IF GetStorageError # "" THEN Throws("insert", NoParams, GetStorageError, FALSE)
       ELSE Issues(Op("insert", "put", "id", NoParams, e, FALSE))

\* The value promisifyRequest resolves with: the default when the result is
\* falsy and a default was given (insert's is -1), the result otherwise.
ResultOrDefault(result, defaultValue) ==
    IF result = 0 /\ defaultValue # 0 THEN defaultValue ELSE result

InsertSuccess ==
    /\ \E i \in 1..Len(txq) :
       /\ EventFor(i, "put")
       /\ LET o == txq[i]
              st == idb.stores[o.store]
          IN
           /\ ~PutConflict(st, o.elem)
           /\ idb' = [idb EXCEPT !.stores[o.store] = Put(st, o.elem)]
           /\ storageName' = Null
           /\ txq' = Without(txq, i)
           /\ last' = [Settles(o, "success", "resolved", "") EXCEPT
                          !.num = ResultOrDefault(PutKey(st, o.elem), -1)]
    /\ UNCHANGED <<config, db, isInited, conn, lcq>>

\* A unique index rejects the record, or the engine fails the write.
InsertError ==
    /\ \E i \in 1..Len(txq) :
       /\ EventFor(i, "put")
       /\ LET o == txq[i]
              st == idb.stores[o.store]
          IN
           /\ storageName' = Null
           /\ txq' = Without(txq, i)
           /\ last' = Settles(o, "error", "rejected",
                              IF PutConflict(st, o.elem) THEN "ConstraintError" ELSE "UnknownError")
    /\ UNCHANGED <<config, db, isInited, idb, conn, lcq>>

(***************************************************************************)
(* update: awaits the request object, not its completion.                  *)
(***************************************************************************)
UpdateCall(e) ==
    /\ KeysLeft(e)
    /\ IF GetStorageError # "" THEN Throws("update", NoParams, GetStorageError, FALSE)
       ELSE Issues(Op("update", "putUpdate", "id", NoParams, e, TRUE))

\* The continuation after an await of a request object (not a promise): it
\* runs as a microtask, clears the storage name and the promise resolves.
Resume(op) ==
    /\ \E i \in 1..Len(txq) :
        /\ txq[i].micro
        /\ txq[i].op = op
        /\ \A j \in 1..(i - 1) : ~txq[j].micro
        /\ storageName' = Null
        /\ txq' = [txq EXCEPT ![i].micro = FALSE, ![i].promise = "resolved"]
        /\ last' = Settles(txq[i], "micro", "resolved", "")
    /\ UNCHANGED <<config, db, isInited, idb, conn, lcq>>

UpdateResume == Resume("update")

\* The engine's events of update's put: no handler is attached to them.
UpdateWritten ==
    /\ \E i \in 1..Len(txq) :
       /\ EventFor(i, "putUpdate")
       /\ LET o == txq[i]
              st == idb.stores[o.store]
          IN
           /\ ~PutConflict(st, o.elem)
           /\ idb' = [idb EXCEPT !.stores[o.store] = Put(st, o.elem)]
           /\ txq' = Without(txq, i)
           /\ last' = [OpReport(o, "success") EXCEPT !.promise = o.promise]
    /\ UNCHANGED <<config, db, storageName, isInited, conn, lcq>>

UpdateFailed ==
    /\ \E i \in 1..Len(txq) :
       /\ EventFor(i, "putUpdate")
       /\ LET o == txq[i]
              st == idb.stores[o.store]
          IN
           /\ txq' = Without(txq, i)
           /\ last' = [OpReport(o, "error") EXCEPT !.promise = o.promise,
                          !.err = IF PutConflict(st, o.elem) THEN "ConstraintError"
                                  ELSE "UnknownError"]
    /\ UNCHANGED <<config, db, storageName, isInited, idb, conn, lcq>>

(***************************************************************************)
(* delete.                                                                 *)
(***************************************************************************)
IsIndex(p) == p.key # "" /\ p.key # "id"

DeleteCall(p) ==
    LET st == idb.stores[storageName] IN
    IF GetStorageError # "" THEN Throws("delete", p, GetStorageError, FALSE)
    ELSE IF IsIndex(p)
    THEN IF ~HasIndex(st, p.key) THEN Throws("delete", p, "NotFoundError", TRUE)
         ELSE IF ~IsKey(p.value) THEN Throws("delete", p, "DataError", TRUE)
         ELSE Issues(Op("delete", "delcur", IndexOf(st, p.key).key, p, NoElem, FALSE))
    ELSE IF Truthy(p.value)
    THEN Issues(Op("delete", "del", "id", p, NoElem, TRUE))
    ELSE \* value && ... : no request; the name is cleared and the promise resolves
         /\ storageName' = Null
         /\ last' = [CallReport("delete", p) EXCEPT !.promise = "resolved",
                        !.settled = TRUE, !.tx = TRUE]
         /\ UNCHANGED <<config, db, isInited, idb, conn, lcq, txq>>

DeleteResume == Resume("delete")

\* The engine's events of delete's IDBObjectStore.delete: no handler.
DeleteWritten ==
    /\ \E i \in 1..Len(txq) :
       /\ EventFor(i, "del")
       /\ LET o == txq[i]
              st == idb.stores[o.store]
          IN
           /\ idb' = [idb EXCEPT !.stores[o.store] = DeleteRange(st, o.p.value)]
           /\ txq' = Without(txq, i)
           /\ last' = [OpReport(o, "success") EXCEPT !.promise = o.promise]
    /\ UNCHANGED <<config, db, storageName, isInited, conn, lcq>>

DeleteFailed ==
    /\ \E i \in 1..Len(txq) :
       /\ EventFor(i, "del")
       /\ LET o == txq[i] IN
           /\ txq' = Without(txq, i)
           /\ last' = [OpReport(o, "error") EXCEPT !.promise = o.promise,
                          !.err = "UnknownError"]
    /\ UNCHANGED <<config, db, storageName, isInited, idb, conn, lcq>>

\* A success event of the index cursor over IDBKeyRange.only(value): the
\* record under it is deleted and the cursor advanced, or, at the end, the
\* name is cleared, the inner promise resolves, and the continuation after
\* await promise.then() clears the name again.
DeleteCursorStep ==
    /\ \E i \in 1..Len(txq) :
       /\ EventFor(i, "delcur")
       /\ LET o == txq[i]
              st == idb.stores[o.store]
              E == {e \in Entries(st, o.path) : InRange(o.p.value, e[1])}
              cur == NextEntry(E, o.pos)
          IN
           IF cur # NoEntry
           THEN /\ idb' = [idb EXCEPT !.stores[o.store] = DeleteRecord(st, cur[2])]
                /\ txq' = [txq EXCEPT ![i] = [o EXCEPT !.pos = cur, !.step = @ + 1, !.active = TRUE,
                                      !.snap = IF o.active THEN @ ELSE st]]
                /\ last' = [OpReport(o, "step") EXCEPT !.promise = "pending"]
                /\ UNCHANGED storageName
           ELSE /\ storageName' = Null
                /\ txq' = Without(txq, i)
                /\ last' = [Settles(o, "success", "resolved", "") EXCEPT !.num = o.step]
                /\ UNCHANGED idb
    /\ UNCHANGED <<config, db, isInited, conn, lcq>>

\* The engine fails the cursor: the transaction aborts (its deletions are
\* rolled back), onerror clears the name and the promise fails.
DeleteCursorError ==
    /\ \E i \in 1..Len(txq) :
       /\ EventFor(i, "delcur")
       /\ LET o == txq[i] IN
           /\ idb' = IF o.active THEN [idb EXCEPT !.stores[o.store] = o.snap] ELSE idb
           /\ storageName' = Null
           /\ txq' = Without(txq, i)
           /\ last' = Settles(o, "error", "rejected", "UnknownError")
    /\ UNCHANGED <<config, db, isInited, conn, lcq>>

(***************************************************************************)
(* createStorage and deleteStorage as explicit calls.  Both look the name  *)
(* up in the list of the connection this.db holds, which a closed          *)
(* connection keeps as it was.  The engine changes the schema only inside  *)
(* a version-change transaction that is active: outside one                *)
(* createObjectStore and deleteObjectStore throw InvalidStateError; while  *)
(* the upgrade of an init is in progress the call either runs in the       *)
(* handler's microtasks, where the transaction is still active, or later,  *)
(* where it throws TransactionInactiveError.  Once the upgrade transaction *)
(* has completed the connection has none, before the success event as      *)
(* after it (InvalidStateError); one that was aborted is still the         *)
(* connection's until the error event, and is not active                   *)
(* (TransactionInactiveError).                                             *)
(***************************************************************************)
SchemaChangeOutcomes ==
    IF conn.state = "upgrading" THEN {"", "TransactionInactiveError"}
    ELSE IF conn.state = "aborting" THEN {"TransactionInactiveError"}
    ELSE {"InvalidStateError"}

StorageReport(op, s) ==
    [Idle EXCEPT !.op = op, !.ev = "call", !.arg = s, !.sel = storageName,
                 !.hadDb = (db # Null), !.connOpen = (conn.state = "open"),
                 !.storeExists = idb.stores[s].exists, !.cfg = config, !.pre = isInited]

\* The checks createStorage makes before it calls the engine.
CreateStorageErrorUnchecked(s) ==
    IF db = Null THEN "DB is not init" ELSE ""
CreateStorageError(s) ==
    IF db = Null THEN "DB is not init"
    ELSE IF s \in conn.names THEN "Storage already exists"
    ELSE ""

\* createStorage is synchronous: it returns or throws (err) within the call.
CreateStorageCall(s) ==
    /\ \E e \in (IF CreateStorageError(s) # "" THEN {CreateStorageError(s)}
                 ELSE SchemaChangeOutcomes) :
        /\ idb' = IF e = "" THEN CreateStorage(idb, s, config) ELSE idb
        /\ conn' = IF e = "" THEN [conn EXCEPT !.names = @ \cup {s}] ELSE conn
        /\ last' = [StorageReport("createStorage", s) EXCEPT !.err = e,
                       !.req = (CreateStorageError(s) = "")]
    /\ UNCHANGED <<config, db, storageName, isInited, lcq, txq>>

\* deleteStorage returns early for a name the connection does not list.
StorageMissing(s) == s \notin conn.names

\* The call of deleteStorage that is waiting at its await.
Awaiting(s) ==
    [Op("deleteStorage", "schema", "id", NoParams, NoElem, TRUE) EXCEPT !.store = s]

\* deleteStorage is async: what it throws rejects its promise, an early
\* return resolves it, both within the call; after deleteObjectStore has
\* returned the call waits at its await and the promise is pending.
DeleteStorageCall(s) ==
    /\ IF db = Null
       THEN /\ last' = [StorageReport("deleteStorage", s) EXCEPT !.promise = "rejected",
                           !.settled = TRUE, !.err = "DB is not init"]
            /\ UNCHANGED <<idb, conn, txq>>
       ELSE IF StorageMissing(s)
       THEN /\ last' = [StorageReport("deleteStorage", s) EXCEPT !.promise = "resolved",
                           !.settled = TRUE]
            /\ UNCHANGED <<idb, conn, txq>>
       ELSE \E e \in SchemaChangeOutcomes :
            IF e = ""
            THEN /\ Len(txq) < MaxPending
                 /\ idb' = [idb EXCEPT !.stores[s] = NoStore]
                 /\ conn' = [conn EXCEPT !.names = @ \ {s}]
                 /\ txq' = Append(txq, Awaiting(s))
                 /\ last' = [StorageReport("deleteStorage", s) EXCEPT
                                !.promise = "pending", !.req = TRUE]
            ELSE /\ last' = [StorageReport("deleteStorage", s) EXCEPT
                                !.promise = "rejected", !.settled = TRUE, !.err = e,
                                !.req = TRUE]
                 /\ UNCHANGED <<idb, conn, txq>>
    /\ UNCHANGED <<config, db, storageName, isInited, lcq>>

\* The continuation after await this.db.deleteObjectStore(...): the promise
\* resolves.
DeleteStorageResume ==
    /\ \E i \in 1..Len(txq) :
        /\ txq[i].micro
        /\ txq[i].op = "deleteStorage"
        /\ \A j \in 1..(i - 1) : ~txq[j].micro
        /\ txq' = Without(txq, i)
        /\ last' = [StorageReport("deleteStorage", txq[i].store) EXCEPT
                       !.ev = "micro", !.promise = "resolved", !.settled = TRUE]
    /\ UNCHANGED <<config, db, storageName, isInited, idb, conn, lcq>>

(***************************************************************************)
(* The specifications.  Each one is the client and the engine above under  *)
(* one kind of caller, with the inputs that caller passes.                 *)
(***************************************************************************)
Fresh(name) == [hasId |-> FALSE, id |-> 0, name |-> name, note |-> 0]
Keyed(id, name, note) == [hasId |-> TRUE, id |-> id, name |-> name, note |-> note]

\* The caller awaits the promise of every data operation before the next
\* call: every promise has settled.  update and delete by id resolve in the
\* continuation of the call, before the engine has run their request, so
\* that request can still be in flight at the caller's next call.
Awaited == \A i \in 1..Len(txq) : txq[i].promise # "pending"

\* Lifecycle: a caller that configures, opens, deletes the database and
\* reloads the page in any order, and inserts records in between.
NextLifecycle ==
    \/ \E c \in Configs : Configure(c)
    \/ InitCall
    \/ OpenSuccess
    \/ OpenVersionError
    \/ OpenUpgradeNeeded
    \/ UpgradeComplete
    \/ OpenUpgradeDone
    \/ UpgradeAbort
    \/ OpenUpgradeAbort
    \/ DeleteDbCall
    \/ DeleteDbSuccess
    \/ DeleteDbBlocked
    \/ DeleteDbError
    \/ \E c \in {NoConfig} \cup Configs : NewSession(c)
    \/ \E s \in StorageNames : Awaited /\ From(s)
    \/ \E e \in {Fresh("A")} : Awaited /\ InsertCall(e)
    \/ InsertSuccess

SpecLifecycle == Init /\ [][NextLifecycle]_vars

\* Selection context: a caller that opens the example's database and issues
\* data operations without awaiting them, from calls in between.
ContextSelects ==
    {NoParams, Params("", Only(NumKey(1)), 0, ""),
     Params("", NoValue, 1, "desc")}
ContextDeletes ==
    {Params("id", Only(NumKey(1)), 0, ""), Params("tasksName", Only(StrKey("A")), 0, "")}
ContextElements == {Keyed(1, "A", 0)}

NextContext ==
    \/ \E s \in StorageNames : From(s)
    \/ InitCall
    \/ OpenSuccess
    \/ OpenUpgradeNeeded
    \/ UpgradeComplete
    \/ OpenUpgradeDone
    \/ UpgradeAbort
    \/ OpenUpgradeAbort
    \/ \E p \in ContextSelects : SelectCall(p)
    \/ SelectSuccess
    \/ SelectError
    \/ SelectCursorStep
    \/ SelectCursorError
    \/ \E e \in ContextElements : InsertCall(e)
    \/ InsertSuccess
    \/ InsertError
    \/ \E e \in ContextElements : UpdateCall(e)
    \/ UpdateResume
    \/ UpdateWritten
    \/ UpdateFailed
    \/ \E p \in ContextDeletes : DeleteCall(p)
    \/ DeleteResume
    \/ DeleteWritten
    \/ DeleteFailed
    \/ DeleteCursorStep
    \/ DeleteCursorError

InitContext == Init /\ config = "cfgA"
SpecContext == InitContext /\ [][NextContext]_vars

\* Queries: a caller that opens the database of cfgB, awaits every operation,
\* and inserts, deletes and selects on tasks with every descriptor below.
QueryValues ==
    {NoValue, Only(NumKey(1)), Only(NumKey(2)), Only(StrKey("A")),
     LowerBound(NumKey(2)), LowerBound(StrKey("B"))}
QuerySelects ==
    {NoParams} \cup
    {Params(k, v, c, o) : k \in {"", "id", "tasksName", "tasksNote"}, v \in QueryValues,
                          c \in 0..MaxKey, o \in {"", "asc", "desc"}}
QueryElements == {Fresh("A"), Fresh("B"), [Fresh("A") EXCEPT !.note = 1]}
QueryDeletes == {Params("id", Only(NumKey(1)), 0, "")}

NextQuery ==
    \/ InitCall
    \/ OpenSuccess
    \/ OpenUpgradeNeeded
    \/ UpgradeComplete
    \/ OpenUpgradeDone
    \/ Awaited /\ From("tasks")
    \/ \E p \in QuerySelects : Awaited /\ SelectCall(p)
    \/ SelectSuccess
    \/ SelectCursorStep
    \/ \E e \in QueryElements : Awaited /\ InsertCall(e)
    \/ InsertSuccess
    \/ InsertError
    \/ \E p \in QueryDeletes : Awaited /\ DeleteCall(p)
    \/ DeleteResume
    \/ DeleteWritten

InitQuery == Init /\ config = "cfgB"
SpecQuery == InitQuery /\ [][NextQuery]_vars

(***************************************************************************)
(* Properties.                                                             *)
(***************************************************************************)
DataOps == {"select", "insert", "update", "delete"}

\* C1: a select, insert, update or delete called with a storage selected and
\* an open connection, with no from call while it is pending, finds
\* this.storageName null when its promise settles, resolved or rejected.
C1_ContextNullAtSettle ==
    (/\ last.op \in DataOps
     /\ last.settled
     /\ last.sel # Null
     /\ last.connOpen
     /\ ~last.fromDuring)
        => storageName = Null

\* C2: after a select, insert, update or delete that fails, whatever the
\* reason, this.storageName is null.
C2_ContextNullAfterFailure ==
    (last.op \in DataOps /\ last.settled /\ last.promise = "rejected")
        => storageName = Null

\* C3 as stated: with no storage selected, select and insert fail with 'No
\* storage selected', in every client state.
C3_AlwaysNoStorageSelected ==
    (last.op \in {"select", "insert"} /\ last.ev = "call" /\ last.sel = Null)
        => (last.promise = "rejected" /\ last.err = "No storage selected")

\* C3 as amended: with no storage selected, select and insert fail with 'No
\* storage selected' when this.db is non-null and with 'DB is not init' when
\* it is null; either way no transaction is opened, no engine request is
\* issued, and nothing of the client or the engine changes.
C3_NoStorageSelected ==
    [][(last'.op \in {"select", "insert"} /\ last'.ev = "call" /\ storageName = Null)
        => (/\ last'.promise = "rejected"
            /\ last'.err = (IF db = Null THEN "DB is not init" ELSE "No storage selected")
            /\ ~last'.tx
            /\ ~last'.req
            /\ txq' = txq /\ lcq' = lcq /\ idb' = idb /\ conn' = conn
            /\ client' = client)]_vars

\* C3's case: select or insert called on an open connection with no storage
\* selected has failed with 'No storage selected'.
C3_Witness ==
    /\ last.op \in {"select", "insert"}
    /\ last.ev = "call"
    /\ last.sel = Null
    /\ last.connOpen
    /\ last.err = "No storage selected"

\* C4: this._isInited is true, and init's promise resolved, only once the
\* engine has reported the success event of the open request: never while
\* the request is still pending (in its upgrade phase), never after it
\* failed.
C4_InitedOnlyAfterSuccess ==
    /\ \A i \in 1..Len(lcq) : lcq[i].kind = "open" => lcq[i].promise # "resolved"
    /\ isInited => (conn.state = "open" \/ conn.stale)

\* C5: when the engine reports an error for init's open request, init's
\* promise is rejected and this._isInited is what it was when init was called.
C5_OpenErrorKeepsInited ==
    (last.op = "init" /\ last.ev = "error")
        => (last.promise = "rejected" /\ isInited = last.pre)

\* C6: init and deleteDb on a client without a descriptor fail with 'Config
\* is not exist', issue no engine request, and leave this.db,
\* this._isInited and this.storageName as they were.
C6_ConfigMissing ==
    [][(last'.op \in {"init", "deleteDb"} /\ last'.ev = "call" /\ config = NoConfig)
        => (/\ last'.promise = "rejected"
            /\ last'.err = "Config is not exist"
            /\ ~last'.req
            /\ lcq' = lcq /\ idb' = idb /\ conn' = conn
            /\ db' = db /\ isInited' = isInited /\ storageName' = storageName)]_vars

\* C6's case: init was called without a descriptor, a storage being selected.
C6_Witness ==
    /\ last.op = "init"
    /\ last.ev = "call"
    /\ config = NoConfig
    /\ storageName # Null
    /\ last.err = "Config is not exist"

\* The indexes a descriptor declares for a storage, as the engine holds them.
Declared(cfg, s) ==
    LET decls == Descriptor(cfg).storeNameToIndexes[s]
    IN {[index |-> decls[i].index, key |-> decls[i].key,
         unique |-> (decls[i].unique = "true")] : i \in 1..Len(decls)}
Named(cfg) ==
    LET names == Descriptor(cfg).storageNames IN {names[i] : i \in 1..Len(names)}

\* What createStorage must have left of the storages that cfg names.
CreatedAsDeclared(cfg) ==
    \A s \in Named(cfg) :
        /\ idb.stores[s].exists
        /\ idb.stores[s].keyPath = "id"
        /\ idb.stores[s].autoIncrement
        /\ idb.stores[s].indexes = Declared(cfg, s)

\* C7 as stated: after the upgrade phase of an init on a fresh database,
\* every storage the descriptor names exists with key path id, a key
\* generator, and exactly the declared indexes, whichever of the two
\* descriptors (the one init read, the one the client holds) is meant.
C7_UpgradeCreatesDeclared ==
    (/\ last.op = "init"
     /\ last.ev = "upgradeneeded"
     /\ last.oldVersion = 0)
        => (CreatedAsDeclared(last.cfg) \/ CreatedAsDeclared(config))

\* C7 as amended: after the upgrade phase of an init on a fresh database,
\* the client still holding the descriptor init read, every storage the
\* descriptor names exists with key path id, a key generator, and exactly
\* the declared indexes, unique exactly where the declaration says
\* unique: true.
C7_FreshUpgradeCreatesDeclared ==
    (/\ last.op = "init"
     /\ last.ev = "upgradeneeded"
     /\ last.oldVersion = 0
     /\ config = last.cfg)
        => CreatedAsDeclared(last.cfg)

\* C7's case: the upgrade of a fresh database under cfgB (two storages, a
\* unique and two non-unique indexes) has run.
C7_Witness ==
    /\ last.op = "init"
    /\ last.ev = "upgradeneeded"
    /\ last.oldVersion = 0
    /\ config = "cfgB"
    /\ last.cfg = "cfgB"
    /\ idb.stores["logs"].exists

\* C8: in an upgrade phase after a version increase, every storage that
\* exists keeps its records and its indexes, and a storage that does not
\* exist is created exactly when the descriptor init read names it.
C8_UpgradeKeepsExisting ==
    [][(last'.op = "init" /\ last'.ev = "upgradeneeded" /\ idb.version > 0)
        => \A s \in StorageNames :
            IF idb.stores[s].exists
            THEN idb'.stores[s] = idb.stores[s]
            ELSE idb'.stores[s].exists <=> s \in Named(last'.cfg)]_vars

\* C8's case: the upgrade from version 1 to cfgB's version 2 has run over a
\* tasks storage that holds a record and lacks the index cfgB adds.
C8_Witness ==
    /\ last.op = "init"
    /\ last.ev = "upgradeneeded"
    /\ last.oldVersion = 1
    /\ last.cfg = "cfgB"
    /\ idb.stores["tasks"].recs # {}
    /\ ~HasIndex(idb.stores["tasks"], "tasksNote")
    /\ idb.stores["logs"].exists

Reverse(s) == [i \in 1..Len(s) |-> s[Len(s) + 1 - i]]

\* C9: a select whose key names an index of the selected storage, whatever
\* its count and orderBy, resolves with records the index holds under value
\* only, in the order of the indexed field: descending for orderBy 'desc',
\* ascending otherwise.
C9_IndexSelectMatchesAndOrders ==
    (/\ last.op = "select"
     /\ last.settled
     /\ last.promise = "resolved"
     /\ HasIndex(idb.stores[last.sel], last.p.key))
        => LET path == IndexOf(idb.stores[last.sel], last.p.key).key
               rows == last.rows
           IN /\ \A i \in 1..Len(rows) :
                    /\ FieldKey(rows[i], path) # NoKey
                    /\ InRange(last.p.value, FieldKey(rows[i], path))
              /\ \A i, j \in 1..Len(rows) :
                    i < j => IF last.p.orderBy = "desc"
                             THEN ~KeyLess(FieldKey(rows[i], path), FieldKey(rows[j], path))
                             ELSE ~KeyLess(FieldKey(rows[j], path), FieldKey(rows[i], path))

\* The descriptor with the same key and value and neither count nor orderBy
\* (the call without a descriptor when both are absent).
WithoutOrder(p) ==
    IF p.key = "" /\ p.value = NoValue THEN NoParams ELSE Params(p.key, p.value, 0, "")

\* C10: a select with orderBy 'desc' and no count resolves with the reverse
\* of what the select with the same key and value and no orderBy resolves
\* with on the same records (where that select resolves).
C10_DescendingIsReverse ==
    (/\ last.op = "select"
     /\ last.settled
     /\ last.promise = "resolved"
     /\ last.p.orderBy = "desc"
     /\ last.p.count = 0
     /\ ~SelectIndexMissing(idb.stores[last.sel], WithoutOrder(last.p)))
        => LET st == idb.stores[last.sel]
               a == WithoutOrder(last.p)
           IN last.rows = Reverse(GetAll(st, SelectPath(st, a), a.value, a.count))

\* The descriptor with the same key, value and orderBy and no count.
WithoutCount(p) == Params(p.key, p.value, 0, p.orderBy)

\* C11: an ascending select with count = k > 0 resolves with the first
\* min(k, n) elements of what the same select without count resolves with
\* on the same records (where that select resolves), n being its length.
C11_CountIsPrefix ==
    (/\ last.op = "select"
     /\ last.settled
     /\ last.promise = "resolved"
     /\ last.p.orderBy # "desc"
     /\ last.p.count > 0
     /\ ~SelectIndexMissing(idb.stores[last.sel], WithoutCount(last.p)))
        => LET st == idb.stores[last.sel]
               a == WithoutCount(last.p)
               all == GetAll(st, SelectPath(st, a), a.value, 0)
               k == last.p.count
           IN last.rows = SubSeq(all, 1, IF k < Len(all) THEN k ELSE Len(all))

\* The descriptors that C13 sends to the primary-key space: none, or one
\* whose key is 'id' or absent and that has neither count nor orderBy.
PrimaryBulk(p) == ~p.has \/ (p.key \in {"", "id"} /\ p.count = 0 /\ p.orderBy = "")
\* The records of st whose primary key value matches, in ascending order.
RECURSIVE AscendingById(_)
AscendingById(R) ==
    IF R = {} THEN <<>>
    ELSE LET m == CHOOSE r \in R : \A o \in R : r.id <= o.id
         IN <<m>> \o AscendingById(R \ {m})
MatchedById(st, value) == AscendingById({r \in st.recs : InRange(value, NumKey(r.id))})

\* C13: a select without descriptor, or with a descriptor whose key is 'id'
\* or absent and that has neither count nor orderBy, issues its read when a
\* storage is selected on an open connection, and resolves with the records
\* whose primary key value matches, in ascending primary-key order.
C13_PrimaryBulkSelect ==
    /\ (/\ last.op = "select"
        /\ last.ev = "call"
        /\ last.sel # Null
        /\ last.connOpen
        /\ last.storeExists
        /\ PrimaryBulk(last.p))
            => last.promise = "pending"
    /\ (/\ last.op = "select"
        /\ last.ev = "success"
        /\ PrimaryBulk(last.p))
            => (/\ last.promise = "resolved"
                /\ last.rows = MatchedById(idb.stores[last.sel], last.p.value))

(***************************************************************************)
(* Descending selects with a count over the primary-key space.             *)
(***************************************************************************)
\* A caller that opens the database of cfgB, awaits every operation, inserts
\* records, deletes the first one, and selects in descending order with a
\* count, by primary key.
CursorElements == {Fresh("A"), Fresh("B")}
CursorDeletes == {Params("id", Only(NumKey(1)), 0, "")}
CursorSelects ==
    {Params(k, v, c, "desc") : k \in {"", "id"},
                               v \in {NoValue, Only(NumKey(1)), LowerBound(NumKey(2))},
                               c \in 1..MaxKey}

NextCursor ==
    \/ InitCall
    \/ OpenSuccess
    \/ OpenUpgradeNeeded
    \/ UpgradeComplete
    \/ OpenUpgradeDone
    \/ Awaited /\ From("tasks")
    \/ \E e \in CursorElements : Awaited /\ InsertCall(e)
    \/ InsertSuccess
    \/ \E p \in CursorDeletes : Awaited /\ DeleteCall(p)
    \/ DeleteResume
    \/ DeleteWritten
    \/ \E p \in CursorSelects : Awaited /\ SelectCall(p)
    \/ SelectCursorStep
    \/ SelectCursorError

InitCursor == Init /\ config = "cfgB"
SpecCursor == InitCursor /\ [][NextCursor]_vars

\* C12: when the engine ends the cursor of a select with orderBy 'desc',
\* count = k > 0 and key 'id' or absent, the select resolves with the
\* min(k, n) records of highest primary key among the n matching ones, in
\* descending primary-key order; with n < k (and n = 0) it resolves as well.
C12_DescendingCount ==
    (/\ last.op = "select"
     /\ last.ev = "success"
     /\ last.p.orderBy = "desc"
     /\ last.p.count > 0
     /\ last.p.key \in {"", "id"})
        => LET desc == Reverse(MatchedById(idb.stores[last.sel], last.p.value))
               k == last.p.count
           IN /\ last.promise = "resolved"
              /\ last.rows = SubSeq(desc, 1, IF k < Len(desc) THEN k ELSE Len(desc))

\* C12's cases: of two records the select with count 1 returned the one of
\* highest key only.
C12_Witness ==
    /\ last.op = "select"
    /\ last.ev = "success"
    /\ last.p.orderBy = "desc"
    /\ last.p.count = 1
    /\ last.p.value = NoValue
    /\ Cardinality(idb.stores["tasks"].recs) = 2
    /\ Len(last.rows) = 1
    /\ last.rows[1].id = 2

(***************************************************************************)
(* Insert, then select by the key insert resolved with.                    *)
(***************************************************************************)
\* A caller that opens the database of cfgB, awaits every operation, inserts
\* records without id and selects by id; nothing updates or deletes.
RoundTripElements == {Fresh("A"), Fresh("B"), [Fresh("A") EXCEPT !.note = 1]}
ById(k) == Params("id", Only(NumKey(k)), 0, "")
RoundTripSelects == {ById(k) : k \in 1..MaxKey}

NextRoundTrip ==
    \/ InitCall
    \/ OpenSuccess
    \/ OpenUpgradeNeeded
    \/ UpgradeComplete
    \/ OpenUpgradeDone
    \/ Awaited /\ From("tasks")
    \/ \E e \in RoundTripElements : Awaited /\ InsertCall(e)
    \/ InsertSuccess
    \/ InsertError
    \/ \E p \in RoundTripSelects : Awaited /\ SelectCall(p)
    \/ SelectSuccess
    \/ SelectError

InitRoundTrip == Init /\ config = "cfgB"
SpecRoundTrip == InitRoundTrip /\ [][NextRoundTrip]_vars

InsertResolvedWith(k, e) ==
    /\ last.op = "insert"
    /\ last.ev = "success"
    /\ last.promise = "resolved"
    /\ last.num = k
    /\ last.elem = e
SelectedById(k) ==
    /\ last.op = "select"
    /\ last.ev = "success"
    /\ last.p = ById(k)
    /\ last.sel = "tasks"

\* C14: once the insert of a record has resolved with key k, every awaited
\* select with key 'id' and value k on that storage (no update or delete in
\* between) resolves with exactly one record: the inserted data with id = k.
C14_RoundTrip ==
    \A k \in 1..MaxKey : \A e \in RoundTripElements :
        [](InsertResolvedWith(k, e)
            => [](SelectedById(k)
                    => (/\ last.promise = "resolved"
                        /\ last.rows = <<[id |-> k, name |-> e.name, note |-> e.note]>>)))

\* C14's case: the second record inserted, one with a note, was selected by
\* its key 2 and came back alone.
C14_Witness ==
    /\ SelectedById(2)
    /\ Cardinality(idb.stores["tasks"].recs) = 2
    /\ last.rows = <<[id |-> 2, name |-> "A", note |-> 1]>>

(***************************************************************************)
(* Writes: insert, update and delete on a storage with a non-unique and a  *)
(* unique index.                                                           *)
(***************************************************************************)
\* A caller that opens the database of cfgB and awaits the promise of every
\* operation before the next call (update and delete by id resolve before
\* the engine has run their request, which is still queued then).
Settled == Awaited

WriteElements == {Fresh("A"), Fresh("B"), Keyed(0, "B", 0), Keyed(1, "B", 1)}
WriteUpdates == {Keyed(1, "B", 1), Keyed(2, "A", 1)}
WriteDeletes ==
    {Params("tasksName", Only(StrKey("A")), 0, ""), Params("tasksNote", Only(NumKey(1)), 0, ""),
     Params("id", Only(NumKey(0)), 0, ""), Params("", Only(NumKey(1)), 0, "")}

NextWrite ==
    \/ InitCall
    \/ OpenSuccess
    \/ OpenUpgradeNeeded
    \/ UpgradeComplete
    \/ OpenUpgradeDone
    \/ Settled /\ From("tasks")
    \/ \E e \in WriteElements : Settled /\ InsertCall(e)
    \/ InsertSuccess
    \/ InsertError
    \/ \E e \in WriteUpdates : Settled /\ UpdateCall(e)
    \/ UpdateResume
    \/ UpdateWritten
    \/ UpdateFailed
    \/ \E p \in WriteDeletes : Settled /\ DeleteCall(p)
    \/ DeleteResume
    \/ DeleteWritten
    \/ DeleteFailed
    \/ DeleteCursorStep
    \/ DeleteCursorError

InitWrite == Init /\ config = "cfgB"
SpecWrite == InitWrite /\ [][NextWrite]_vars

\* The record that holds the data of element e under key k.
Stored(e, k) == [id |-> k, name |-> e.name, note |-> e.note]

\* C15: a successful insert adds exactly one record to the selected storage,
\* under a primary key that no record of the storage holds, and leaves every
\* existing record as it was (stated for the keys held now: a part of the
\* claim, which also excludes the keys held earlier).
C15_InsertAddsOneRecord ==
    [][(last'.op = "insert" /\ last'.ev = "success" /\ last'.promise = "resolved")
        => LET before == idb.stores[last'.sel].recs
               after == idb'.stores[last'.sel].recs
           IN \E r \in after :
                /\ \A o \in before : o.id # r.id
                /\ after = before \cup {r}]_vars

\* C16: once update(record) with a record that carries primary key k has
\* resolved and the engine has ended its write, the storage holds at k
\* exactly the given record and every record at another key is as it was
\* before the write.
C16_UpdateReplaces ==
    [][(last'.op = "update" /\ last'.ev \in {"success", "error"} /\ last'.elem.hasId)
        => LET e == last'.elem
               before == idb.stores[last'.sel].recs
               after == idb'.stores[last'.sel].recs
           IN /\ last'.promise = "resolved"
              /\ after = {o \in before : o.id # e.id} \cup {Stored(e, e.id)}]_vars

\* C17: when a delete whose key names an index of the selected storage
\* resolves, the storage holds exactly the records it held when the delete's
\* transaction started whose indexed field differs from value, unchanged.
C17_DeleteByIndex ==
    [][(/\ last'.op = "delete"
        /\ last'.ev = "success"
        /\ last'.promise = "resolved"
        /\ IsIndex(last'.p))
        => LET o == Head(txq)
               before == IF o.active THEN o.snap ELSE idb.stores[o.store]
               path == IndexOf(before, o.p.key).key
           IN idb'.stores[o.store].recs =
                {r \in before.recs : FieldKey(r, path) # o.p.value.key}]_vars

\* C17's cases: the delete on the non-unique index tasksName = A removed two
\* records, and the record named B is what the storage holds.
C17_Witness ==
    /\ last.op = "delete"
    /\ last.ev = "success"
    /\ last.promise = "resolved"
    /\ last.p.key = "tasksName"
    /\ last.num = 2
    /\ idb.stores["tasks"].recs = {[id |-> 0, name |-> "B", note |-> 0]}

\* C18: a delete whose key is absent or 'id', once it has resolved and the
\* engine has run the request it issued (if any), has removed the record
\* whose primary key equals value, for every key value, and nothing else.
C18_DeleteById ==
    [][(/\ last'.op = "delete"
        /\ ~IsIndex(last'.p)
        /\ last'.p.value.kind = "only"
        /\ last'.promise = "resolved"
        /\ last'.ev \in {"call", "success"})
        => LET before == idb.stores[last'.sel].recs
               after == idb'.stores[last'.sel].recs
           IN after = {r \in before : NumKey(r.id) # last'.p.value.key}]_vars

\* C19: the promise of a select, insert, update or delete that issued an
\* engine request settles in the handler of that request's terminal event
\* (success or error), never before.
C19_SettlesAfterEngine ==
    (last.op \in DataOps /\ last.settled /\ last.req)
        => last.ev \in {"success", "error"}

\* C20: when the engine reports an error for a request of select, insert,
\* update or delete, the promise of the operation is rejected.
C20_EngineErrorRejects ==
    (last.op \in DataOps /\ last.ev = "error")
        => (last.promise = "rejected" /\ last.err # "")

\* C22: deleteDb called on a client that has completed init (its connection
\* is open), no other connection to the database being open, resolves and
\* leaves this._isInited false.
C22_DeleteDbAfterInit ==
    (/\ last.op = "deleteDb"
     /\ last.settled
     /\ db # Null
     /\ conn.state = "open"
     /\ ~conn.stale
     /\ ~conn.others)
        => (last.promise = "resolved" /\ ~isInited)

(***************************************************************************)
(* deleteDb while connections are open: a caller that opens and deletes    *)
(* the database and reloads the page, beside another page that opens and   *)
(* closes a connection of its own.                                         *)
(***************************************************************************)
NextBlocked ==
    \/ InitCall
    \/ OpenSuccess
    \/ OpenVersionError
    \/ OpenUpgradeNeeded
    \/ UpgradeComplete
    \/ OpenUpgradeDone
    \/ UpgradeAbort
    \/ OpenUpgradeAbort
    \/ DeleteDbCall
    \/ DeleteDbSuccess
    \/ DeleteDbBlocked
    \/ DeleteDbOrphaned
    \/ OtherOpen
    \/ OtherClose
    \/ \E c \in Configs : NewSession(c)

SpecBlocked == Init /\ [][NextBlocked]_vars

\* C23: when the engine reports a deleteDb request as blocked, the promise
\* is rejected with the blocked-deletion error, and no later event of that
\* request changes this._isInited from the value it had when deleteDb was
\* called.
C23_BlockedKeepsInited ==
    [][/\ last'.op = "deleteDb" /\ last'.ev = "blocked"
          => /\ last'.promise = "rejected"
             /\ last'.err = "Could not delete database due to the operation being blocked"
             /\ isInited' = last'.pre
       /\ (/\ lcq # <<>>
           /\ Head(lcq).kind = "delete"
           /\ Head(lcq).phase = "blocked"
           /\ last'.op = "deleteDb"
           /\ last'.ev # "call")
          => isInited' = Head(lcq).pre]_vars

(***************************************************************************)
(* Explicit schema calls: a caller that configures, opens and deletes the  *)
(* database, reloads the page and calls createStorage and deleteStorage at *)
(* any moment.                                                             *)
(***************************************************************************)
NextSchema ==
    \/ \E c \in Configs : Configure(c)
    \/ InitCall
    \/ OpenSuccess
    \/ OpenVersionError
    \/ OpenUpgradeNeeded
    \/ UpgradeComplete
    \/ OpenUpgradeDone
    \/ UpgradeAbort
    \/ OpenUpgradeAbort
    \/ \E s \in StorageNames : CreateStorageCall(s)
    \/ \E s \in StorageNames : DeleteStorageCall(s)
    \/ DeleteStorageResume
    \/ DeleteDbCall
    \/ DeleteDbSuccess
    \/ DeleteDbBlocked
    \/ DeleteDbError
    \/ \E c \in {NoConfig} \cup Configs : NewSession(c)

SpecSchema == Init /\ [][NextSchema]_vars

\* C24: createStorage(name) throws 'DB is not init' when this.db is null,
\* and 'Storage already exists' when this.db is set and a storage of that
\* name exists; in both cases the database's storages and indexes are the
\* same after the call as before it.
C24_CreateStorageFails ==
    [][last'.op = "createStorage"
          => /\ db = Null
                  => (last'.err = "DB is not init" /\ idb' = idb)
             /\ (db # Null /\ idb.stores[last'.arg].exists)
                  => (last'.err = "Storage already exists" /\ idb' = idb)]_vars

C24_Witness ==
    /\ last.op = "createStorage"
    /\ last.hadDb
    /\ last.connOpen
    /\ last.storeExists
    /\ last.err = "Storage already exists"
    /\ idb.stores[last.arg].indexes # {}

\* C25: createStorage(name) called after init has completed (the connection
\* is open, no upgrade in progress) for a name no storage has returns
\* normally, and the storage exists with the indexes the descriptor declares.
C25_CreateStorageAfterInit ==
    (/\ last.op = "createStorage"
     /\ last.hadDb
     /\ last.connOpen
     /\ ~last.storeExists)
        => /\ last.err = ""
           /\ idb.stores[last.arg].exists
           /\ idb.stores[last.arg].indexes = Declared(last.cfg, last.arg)

\* C26: deleteStorage(name) rejects with 'DB is not init' when this.db is
\* null; otherwise, for a name no storage has, it resolves, calls the
\* engine for nothing, and leaves the database's storages, this.db,
\* this._isInited and this.storageName as they were.
C26_DeleteMissingStorage ==
    [][(last'.op = "deleteStorage" /\ last'.ev = "call")
          => /\ db = Null
                  => /\ last'.promise = "rejected"
                     /\ last'.err = "DB is not init"
             /\ (db # Null /\ ~idb.stores[last'.arg].exists)
                  => /\ last'.promise = "resolved"
                     /\ ~last'.req
                     /\ idb' = idb
                     /\ UNCHANGED <<db, isInited, storageName, lcq, txq>>]_vars

\* C27: deleteStorage(name) called after init has completed (the connection
\* is open, no upgrade in progress) for an existing storage resolves, and
\* the storage does not exist afterwards.
C27_DeleteStorageAfterInit ==
    (/\ last.op = "deleteStorage"
     /\ last.hadDb
     /\ last.connOpen
     /\ last.storeExists)
        => /\ last.promise = "resolved"
           /\ ~idb.stores[last.arg].exists

\* C28: configure(descriptor) makes the descriptor this.config and returns
\* the client; this.db, this._isInited, this.storageName, the database with
\* its storages, the connection and the pending requests stay as they were.
C28_ConfigureFrame ==
    [][last'.op = "configure"
          => /\ config' = last'.cfg
             /\ last'.ret = "this"
             /\ UNCHANGED <<db, isInited, storageName, idb, conn, lcq, txq>>]_vars

C28_Witness ==
    /\ last.op = "configure"
    /\ last.cfg = "cfgB"
    /\ config = "cfgB"
    /\ idb.version = 1
    /\ conn.state = "open"
    /\ isInited
    /\ storageName # Null
    /\ idb.stores["tasks"].recs # {}

\* C29: whenever insert resolves with a value v, the storage holds the
\* inserted record under primary key v; v is never the sentinel -1.
C29_InsertResolvesWithKey ==
    (last.op = "insert" /\ last.ev = "success" /\ last.promise = "resolved")
        => /\ last.num # -1
           /\ Stored(last.elem, last.num) \in idb.stores[last.sel].recs

(***************************************************************************)
(* update with and without a primary key: a caller that opens the database *)
(* of cfgA, inserts records and updates, awaiting every promise.           *)
(***************************************************************************)
UpdateElements == {Fresh("B"), Keyed(1, "B", 0)}

NextUpdate ==
    \/ InitCall
    \/ OpenSuccess
    \/ OpenUpgradeNeeded
    \/ UpgradeComplete
    \/ OpenUpgradeDone
    \/ Settled /\ From("tasks")
    \/ Settled /\ InsertCall(Fresh("A"))
    \/ InsertSuccess
    \/ \E e \in UpdateElements : Settled /\ UpdateCall(e)
    \/ UpdateResume
    \/ UpdateWritten

InitUpdate == Init /\ config = "cfgA"
SpecUpdate == InitUpdate /\ [][NextUpdate]_vars

\* C30: no step of update(record) with a record that carries no primary
\* key (the call, its continuation, the engine's write) changes the number
\* of records of the selected storage.
C30_UpdateWithoutKeyAddsNothing ==
    [][(last'.op = "update" /\ last'.tx /\ ~last'.elem.hasId)
        => Cardinality(idb'.stores[last'.sel].recs)
              = Cardinality(idb.stores[last'.sel].recs)]_vars

(***************************************************************************)
(* Issue order: a caller that opens the database of cfgB and awaits every  *)
(* promise before the next call; it inserts into and deletes from tasks,   *)
(* updates logs, and selects by id from both.                              *)
(***************************************************************************)
OrderInsert == Fresh("A")
OrderUpdate == Keyed(1, "B", 0)

NextOrder ==
    \/ InitCall
    \/ OpenSuccess
    \/ OpenUpgradeNeeded
    \/ UpgradeComplete
    \/ OpenUpgradeDone
    \/ \E s \in StorageNames : Settled /\ From(s)
    \/ Settled /\ storageName = "tasks" /\ InsertCall(OrderInsert)
    \/ InsertSuccess
    \/ InsertError
    \/ Settled /\ storageName = "logs" /\ UpdateCall(OrderUpdate)
    \/ UpdateResume
    \/ UpdateWritten
    \/ UpdateFailed
    \/ Settled /\ storageName = "tasks" /\ DeleteCall(ById(1))
    \/ DeleteResume
    \/ DeleteWritten
    \/ DeleteFailed
    \/ \E k \in 1..MaxKey : Settled /\ SelectCall(ById(k))
    \/ SelectSuccess
    \/ SelectError

InitOrder == Init /\ config = "cfgB"
SpecOrder == InitOrder /\ [][NextOrder]_vars

\* A select by id k on storage s has just settled.
SelectedIn(s, k) ==
    /\ last.op = "select"
    /\ last.ev \in {"success", "error"}
    /\ last.p = ById(k)
    /\ last.sel = s

C34_InitedHasHandle == isInited => db # Null

\* C34's cases: the flag is true over an open connection, and it is true
\* over the handle of a connection the aborted upgrade has closed.
C34_Witness ==
    /\ isInited
    /\ db # Null
    /\ conn.state = "closed"
    /\ last.op = "init"
    /\ last.ev = "error"

\* C35: no step of deleteDb (the call, and the success, error or blocked
\* event of its request) changes this.db, this.config or this.storageName;
\* the success event leaves this._isInited false, over the handle the client
\* held.
C35_DeleteDbFrame ==
    [][last'.op = "deleteDb"
          => /\ UNCHANGED <<db, config, storageName>>
             /\ last'.ev = "success" => ~isInited'
             /\ last'.ev # "success" => isInited' = isInited]_vars

C35_Witness ==
    /\ last.op = "deleteDb"
    /\ last.ev = "success"
    /\ last.promise = "resolved"
    /\ last.pre
    /\ db # Null
    /\ ~isInited

(***************************************************************************)
(* Reads: a caller that opens the database of cfgB, inserts records into   *)
(* tasks, and selects from either storage by every path of select (bulk,   *)
(* by id, by index, with a count, descending), awaiting every promise; the *)
(* engine may fail a read.                                                 *)
(***************************************************************************)
ReadElements == {Fresh("A"), [Fresh("B") EXCEPT !.note = 1]}
ReadSelects ==
    {NoParams} \cup
    {Params(k, v, c, o) : k \in {"", "id", "tasksName"},
                          v \in {NoValue, Only(NumKey(1)), Only(StrKey("A"))},
                          c \in {0, 1}, o \in {"", "desc"}}

NextRead ==
    \/ InitCall
    \/ OpenSuccess
    \/ OpenUpgradeNeeded
    \/ UpgradeComplete
    \/ OpenUpgradeDone
    \/ \E s \in StorageNames : Awaited /\ From(s)
    \/ \E e \in ReadElements : Awaited /\ InsertCall(e)
    \/ InsertSuccess
    \/ InsertError
    \/ \E p \in ReadSelects : Awaited /\ SelectCall(p)
    \/ SelectSuccess
    \/ SelectError
    \/ SelectCursorStep
    \/ SelectCursorError

InitRead == Init /\ config = "cfgB"
SpecRead == InitRead /\ [][NextRead]_vars

\* C36: no step of a select (the call, whether it throws or issues a
\* request, every cursor event, the success or error event) changes the
\* database (the records and indexes of every storage), this.db or
\* this._isInited.
C36_SelectReadsOnly ==
    [][last'.op = "select" => (idb' = idb /\ db' = db /\ isInited' = isInited)]_vars

\* C36's case: a descending select has walked its cursor over both records
\* of the storage and resolved with them.
C36_Witness ==
    /\ last.op = "select"
    /\ last.ev = "success"
    /\ last.p.orderBy = "desc"
    /\ Len(last.rows) = 2
    /\ Cardinality(idb.stores[last.sel].recs) = 2

(***************************************************************************)
(* Binding: a caller that opens the database of cfgB once and calls from,  *)
(* insert, update and select on both storages without awaiting, so that    *)
(* from calls fall between the call and the completion of an operation.    *)
(***************************************************************************)
BindingInsert == Fresh("A")
BindingUpdate == Keyed(1, "B", 0)

NextBinding ==
    \/ db = Null /\ InitCall
    \/ OpenUpgradeNeeded
    \/ UpgradeComplete
    \/ OpenUpgradeDone
    \/ \E s \in StorageNames : From(s)
    \/ InsertCall(BindingInsert)
    \/ InsertSuccess
    \/ UpdateCall(BindingUpdate)
    \/ UpdateResume
    \/ UpdateWritten
    \/ SelectCall(NoParams)
    \/ SelectSuccess

InitBinding == Init /\ config = "cfgB"
SpecBinding == InitBinding /\ [][NextBinding]_vars

\* C32: the step that follows a from(s), when it is not a call of the
\* caller but the completion of an earlier operation (an engine event or
\* the continuation of an await), leaves this.storageName as from(s) set it.
C32_SelectionOutlivesCompletion ==
    [][(/\ last.op = "none"
        /\ storageName # Null
        /\ last'.op \in DataOps
        /\ last'.ev # "call")
          => storageName' = storageName]_vars

\* C33: an operation is bound to the storage selected when it is called, and
\* stays bound to it: the operation a call issues is on this.storageName as
\* it is at the call; no step (a from call in particular) changes the storage
\* of an operation in flight; every event of an operation reports that
\* storage and changes no other storage.
C33_BoundAtCall ==
    [][/\ Len(txq') = Len(txq) + 1
          => /\ txq'[Len(txq')].store = storageName
             /\ \A i \in 1..Len(txq) : txq'[i].store = txq[i].store
       /\ Len(txq') = Len(txq)
          => \A i \in 1..Len(txq) : txq'[i].store = txq[i].store
       /\ Len(txq') = Len(txq) - 1
          => \E k \in 1..Len(txq) :
                \A i \in 1..Len(txq') : txq'[i].store = txq[IF i < k THEN i ELSE i + 1].store
       /\ (last'.op \in DataOps /\ last'.ev # "call")
          => /\ \E i \in 1..Len(txq) : txq[i].op = last'.op /\ txq[i].store = last'.sel
             /\ \A s \in StorageNames \ {last'.sel} : idb'.stores[s] = idb.stores[s]]_vars

\* C33's case: the select called on tasks, during which from('logs') was
\* called and an insert issued on logs, resolved with the records of tasks
\* while the insert on logs is still in flight.
C33_Witness ==
    /\ last.op = "select"
    /\ last.ev = "success"
    /\ last.sel = "tasks"
    /\ last.fromDuring
    /\ last.rows # <<>>
    /\ idb.stores["logs"].recs = {}
    /\ txq # <<>>
    /\ Head(txq).op = "insert"
    /\ Head(txq).store = "logs"

(***************************************************************************)
(* Cursor walks under fair delivery: a caller that opens the database of   *)
(* cfgB, inserts records, selects in descending order and deletes by       *)
(* index, awaiting every promise; the engine delivers the success events   *)
(* of a cursor as long as the cursor's request is pending.                 *)
(***************************************************************************)
WalkElements == {Fresh("A"), [Fresh("B") EXCEPT !.note = 1]}
WalkSelects ==
    {Params(k, v, c, "desc") : k \in {"", "id"},
                               v \in {NoValue, LowerBound(NumKey(2))},
                               c \in 0..MaxKey}
    \cup {Params("tasksName", Only(StrKey("A")), 0, "desc"),
          Params("tasksNote", Only(NumKey(1)), 0, "desc")}
WalkDeletes ==
    {Params("tasksName", Only(StrKey("A")), 0, ""), Params("tasksNote", Only(NumKey(1)), 0, "")}

NextWalk ==
    \/ db = Null /\ InitCall
    \/ OpenUpgradeNeeded
    \/ UpgradeComplete
    \/ OpenUpgradeDone
    \/ Awaited /\ From("tasks")
    \/ \E e \in WalkElements : Awaited /\ InsertCall(e)
    \/ InsertSuccess
    \/ InsertError
    \/ \E p \in WalkSelects : Awaited /\ SelectCall(p)
    \/ SelectCursorStep
    \/ SelectCursorError
    \/ \E p \in WalkDeletes : Awaited /\ DeleteCall(p)
    \/ DeleteCursorStep
    \/ DeleteCursorError

InitWalk == Init /\ config = "cfgB"
SpecWalk ==
    InitWalk /\ [][NextWalk]_vars /\ WF_vars(SelectCursorStep) /\ WF_vars(DeleteCursorStep)

\* A cursor-walking operation is in flight.
Walking == \E i \in 1..Len(txq) : txq[i].mode \in {"cursor", "delcur"}
\* The entries in the range of operation o's cursor over storage st.
InCursorRange(o, st) == {e \in Entries(st, o.path) : InRange(o.p.value, e[1])}
AtMost(c, n) == IF c # 0 /\ c < n THEN c ELSE n

\* The records that operation o's descriptor matches in storage st: by value
\* in the index its key names, or by primary key.
Matching(o, st) ==
    LET path == IF HasIndex(st, o.p.key) THEN IndexOf(st, o.p.key).key ELSE "id"
    IN {e \in Entries(st, path) : InRange(o.p.value, e[1])}

\* C31: when a descending select settles, its cursor has advanced at most
\* min(count, n) times (n when count is absent), n being the number of
\* records the descriptor matches; when a delete by index resolves it has
\* made exactly n delete-then-advance steps; under fair delivery of the
\* engine's events both settle.
C31_WalkBoundedByMatches ==
    /\ Walking ~> ~Walking
    /\ [][/\ (last'.op = "select" /\ last'.p.orderBy = "desc"
                /\ last'.ev \in {"success", "error"})
             => LET o == Head(txq)
                    n == Cardinality(Matching(o, idb.stores[o.store]))
                IN o.step <= AtMost(o.p.count, n)
          /\ (last'.op = "delete" /\ IsIndex(last'.p) /\ last'.ev = "success")
             => LET o == Head(txq)
                    n == Cardinality(Matching(o,
                            IF o.active THEN o.snap ELSE idb.stores[o.store]))
                IN o.step = n]_vars

\* What holds of the walks (C31 with n counted in the range the cursor is
\* opened on): under fair delivery of the engine's events every descending
\* select and every delete by index settles; when the select settles its
\* cursor has advanced at most min(count, n) times (n when count is
\* absent), and when the delete resolves it has made exactly n
\* delete-then-advance steps (at most n when the engine fails it), n being
\* the number of records in the cursor's range when the operation's
\* transaction started.
C31_WalksSettle ==
    /\ Walking ~> ~Walking
    /\ [][/\ (last'.op = "select" /\ last'.p.orderBy = "desc"
                /\ last'.ev \in {"success", "error"})
             => LET o == Head(txq)
                    n == Cardinality(InCursorRange(o, idb.stores[o.store]))
                IN /\ last'.settled
                   /\ o.step <= AtMost(o.p.count, n)
          /\ (last'.op = "delete" /\ IsIndex(last'.p)
                /\ last'.ev \in {"success", "error"})
             => LET o == Head(txq)
                    n == Cardinality(InCursorRange(o,
                            IF o.active THEN o.snap ELSE idb.stores[o.store]))
                IN /\ last'.settled
                   /\ IF last'.ev = "success" THEN o.step = n ELSE o.step <= n]_vars

====
